---- MODULE Spec2Model ----
(***************************************************************************)
(* Model of src/pdf_processor.py (class PDFProcessor): the Page Redactor   *)
(* (_remove_watermarks), the Document Pipeline (process, _merge_pdfs,      *)
(* _compress_pdf) and the Scan Reporter (scan_pdf).                        *)
(*                                                                         *)
(* Conventions.                                                            *)
(*  - A path is a sequence of substrings (tokens); ".pdf" is one token, so *)
(*    str.replace('.pdf', X + '.pdf') rewrites every ".pdf" token.         *)
(*  - Page text is a sequence of chunks; a keyword is a chunk sequence and *)
(*    substring containment is contiguous-subsequence containment.         *)
(*  - Page geometry is in integer page units.  Overlay rectangles are kept *)
(*    in hundredths of a unit, so that 0.45 * width etc. stay integral.    *)
(*  - The comparisons of the Region Heuristic are done in exact rational   *)
(*    arithmetic, cross-multiplied (rel_y > 0.7  <=>  y0 * 10 > 7 * H).    *)
(*  - A float is a rational [num, den].                                    *)
(***************************************************************************)
EXTENDS Integers, Sequences, FiniteSets, TLC

VARIABLES
    fs,               \* the file system: path -> [pages, bytes]
    file_paths,       \* process(): argument
    remove_text,      \* process() / _remove_watermarks(): argument
    remove_qr,        \* process() / _remove_watermarks(): argument
    merge,            \* process(): argument
    compress,         \* process(): argument
    pc,               \* position inside process()
    i,                \* process(): index of the for loop (0-based)
    total_pages,      \* process(): local
    total_watermarks, \* process(): local
    processed_pdfs,   \* process(): local
    merged_path,      \* process(): local
    final_path,       \* process(): local
    ret,              \* process(): the returned (path, stats)
    exc,              \* the exception process() raised, "" if none
    removed_log,      \* history: the counts printed by _remove_watermarks
    derived,          \* history: every path derived for writing
    deleted,          \* history: every path handed to os.remove
    gs_calls,         \* history: the input paths Ghostscript was run on
    gs_result,        \* history: outcome of the Ghostscript run
    merged_file,      \* history: the merged document as written by _merge_pdfs
    doc,              \* the document handed to the Page Redactor / Scan Reporter
    out,              \* result of _remove_watermarks on doc
    report            \* result of scan_pdf on doc

vars == <<fs, file_paths, remove_text, remove_qr, merge, compress, pc, i,
          total_pages, total_watermarks, processed_pdfs, merged_path,
          final_path, ret, exc, removed_log, derived, deleted, gs_calls,
          gs_result, merged_file, doc, out, report>>

pipelineVars == <<fs, file_paths, merge, compress, pc, i,
                  total_pages, total_watermarks, processed_pdfs, merged_path,
                  final_path, ret, exc, removed_log, derived, deleted, gs_calls,
                  gs_result, merged_file>>

redactorVars == <<doc, out, report>>

-----------------------------------------------------------------------------
(* Bounds *)

MaxFiles == 3
MaxPages == 2

-----------------------------------------------------------------------------
(* Generic helpers *)

Range(s) == {s[k] : k \in 1..Len(s)}

RECURSIVE Concat(_)
Concat(ss) == IF ss = <<>> THEN <<>> ELSE Head(ss) \o Concat(Tail(ss))

RECURSIVE SumSeq(_)
SumSeq(s) == IF s = <<>> THEN 0 ELSE Head(s) + SumSeq(Tail(s))

SeqsUpTo(S, n) == UNION {[1..k -> S] : k \in 0..n}

-----------------------------------------------------------------------------
(* Keyword Matcher *)

\* The Chinese fragments, romanised: quan-neng, sao-miao, chuang-jian, wang.
zh_keywords == << <<"quan-neng">>, <<"sao-miao">>, <<"chuang-jian">>, <<"wang">> >>

en_keywords == << <<"Cam", "Scan", "ner">>, <<"Scan", "ned", " with">>,
                  <<"Created", " by">>, <<"scan">> >>

\* str.lower() on one chunk: only the chunks holding upper-case letters change.
LowerChunk(c) ==
    CASE c = "Cam" -> "cam"
      [] c = "Scan" -> "scan"
      [] c = "SCAN" -> "scan"
      [] c = "Created" -> "created"
      [] c = "Invoice" -> "invoice"
      [] OTHER -> c

Lower(s) == [k \in 1..Len(s) |-> LowerChunk(s[k])]

\* sub in s
Contains(sub, s) ==
    \E k \in 0..(Len(s) - Len(sub)) : SubSeq(s, k + 1, k + Len(sub)) = sub

has_watermark(text) ==
    \E kw \in Range(zh_keywords \o en_keywords) : Contains(Lower(kw), Lower(text))

-----------------------------------------------------------------------------
(* Region Heuristic and Page Redactor: _remove_watermarks *)

\* fitz.Rect(x0, y0, x1, y1) of an image placement, in hundredths of a unit
PlacementOverlay(rect) ==
    [x0 |-> rect.x0 * 100, y0 |-> rect.y0 * 100,
     x1 |-> (rect.x0 + rect.width) * 100, y1 |-> (rect.y0 + rect.height) * 100]

\* for img in images: for rect in page.get_image_rects(xref)
PlacementRects(page) == Concat([k \in 1..Len(page.images) |-> page.images[k].rects])

is_bottom_right(rect, page_width, page_height) ==
    rect.y0 * 10 > 7 * page_height /\ rect.x0 * 100 > 65 * page_width

is_small(rect) == rect.width * rect.height < 20000

\* A variant that lets a placement lying exactly on the height bound through.
is_very_small_height_inclusive(rect, page_height) ==
    rect.height * 100 <= 12 * page_height

is_very_small_height(rect, page_height) == rect.height * 100 < 12 * page_height

RegionHeuristic(rect, page_width, page_height) ==
    /\ is_bottom_right(rect, page_width, page_height)
    /\ is_small(rect)
    /\ is_very_small_height(rect, page_height)

\* step 1: the fixed lower-right rectangle, when the page text matches
TextOverlays(page, rt) ==
    IF rt /\ has_watermark(page.text)
    THEN << [x0 |-> page.width * 45, y0 |-> page.height * 88,
             x1 |-> (page.width - 5) * 100, y1 |-> (page.height - 5) * 100] >>
    ELSE <<>>

\* step 2: one rectangle per placement passing the Region Heuristic
QrOverlays(page, rq) ==
    IF rq
    THEN LET Pass(r) == RegionHeuristic(r, page.width, page.height)
             sel     == SelectSeq(PlacementRects(page), Pass)
         IN  [k \in 1..Len(sel) |-> PlacementOverlay(sel[k])]
    ELSE <<>>

\* A variant of step 3 that looks at remove_text alone.
SafetyNetOverlaysTextOnly(page, rt, rq) ==
    IF rt
    THEN << [x0 |-> page.width * 50, y0 |-> page.height * 85,
             x1 |-> (page.width - 2) * 100, y1 |-> (page.height - 2) * 100],
            [x0 |-> page.width * 75, y0 |-> page.height * 85,
             x1 |-> (page.width - 2) * 100, y1 |-> (page.height - 2) * 100] >>
    ELSE <<>>

\* step 3: the two fixed rectangles
SafetyNetOverlays(page, rt, rq) ==
    IF rt \/ rq
    THEN << [x0 |-> page.width * 50, y0 |-> page.height * 85,
             x1 |-> (page.width - 2) * 100, y1 |-> (page.height - 2) * 100],
            [x0 |-> page.width * 75, y0 |-> page.height * 85,
             x1 |-> (page.width - 2) * 100, y1 |-> (page.height - 2) * 100] >>
    ELSE <<>>

\* the body of the page loop: the page with its draw operations appended
RedactPage(page, rt, rq) ==
    [page EXCEPT !.overlays = @ \o TextOverlays(page, rt) \o QrOverlays(page, rq)
                                \o SafetyNetOverlays(page, rt, rq)]

\* what one page adds to watermarks_removed
PageRemoved(page, rt, rq) == Len(TextOverlays(page, rt)) + Len(QrOverlays(page, rq))

\* the page loop over a document: the pages saved and the count printed
RemoveWatermarksDoc(pages, rt, rq) ==
    [pages   |-> [k \in 1..Len(pages) |-> RedactPage(pages[k], rt, rq)],
     removed |-> SumSeq([k \in 1..Len(pages) |-> PageRemoved(pages[k], rt, rq)])]

-----------------------------------------------------------------------------
(* Scan Reporter: scan_pdf *)

ScanHeuristic(rect, page_width, page_height) ==
    is_bottom_right(rect, page_width, page_height) /\ is_small(rect)

\* '{v:.2f}' of num/den, as a number of hundredths (round to nearest)
Format2(num, den) == (num * 200 + den) \div (2 * den)

ImageDetail(page_num, page, rect) ==
    [page     |-> page_num + 1,
     position |-> <<Format2(rect.x0, page.width), Format2(rect.y0, page.height)>>,
     size     |-> <<rect.width, rect.height>>]

PageDetails(page_num, page) ==
    LET Pass(r) == ScanHeuristic(r, page.width, page.height)
        sel     == SelectSeq(PlacementRects(page), Pass)
    IN  [k \in 1..Len(sel) |-> ImageDetail(page_num, page, sel[k])]

ScanDoc(pages) ==
    LET details == Concat([k \in 1..Len(pages) |-> PageDetails(k - 1, pages[k])])
    IN  [pages              |-> Len(pages),
         images             |-> SumSeq([k \in 1..Len(pages) |-> Len(pages[k].images)]),
         has_text_watermark |-> \E k \in 1..Len(pages) : has_watermark(pages[k].text),
         has_qr_watermark   |-> details # <<>>,
         image_details      |-> details]

-----------------------------------------------------------------------------
(* Paths and the derived file names *)

\* path.replace('.pdf', suffix + '.pdf'): every occurrence is replaced
RECURSIVE Replace(_, _)
Replace(path, suffix) ==
    IF path = <<>> THEN <<>>
    ELSE (IF Head(path) = ".pdf" THEN <<suffix, ".pdf">> ELSE <<Head(path)>>)
         \o Replace(Tail(path), suffix)

CleanPath(input_path) == Replace(input_path, "_clean")

MergedPath(paths) == Replace(paths[1], "_merged")

CompressedPath(input_path) == Replace(input_path, "_compressed")

-----------------------------------------------------------------------------
(* The file system *)

Exists(f, path) == path \in DOMAIN f

WriteFile(f, path, file) ==
    [q \in (DOMAIN f) \cup {path} |-> IF q = path THEN file ELSE f[q]]

RemoveFiles(f, paths) == [q \in (DOMAIN f) \ paths |-> f[q]]

\* os.path.getsize(path) / (1024 * 1024)
SizeMB(bytes) == [num |-> bytes, den |-> 1048576]

\* round(x, 2) of x = bytes / 2^20 (exact in binary): to the nearest hundredth,
\* a tie to the even one
Round2(x) ==
    LET n == x.num * 100
        q == n \div x.den
        r == n % x.den
    IN  [num |-> IF 2 * r > x.den \/ (2 * r = x.den /\ q % 2 = 1) THEN q + 1 ELSE q,
         den |-> 100]

-----------------------------------------------------------------------------
(* Document Pipeline: the pure parts of process, _merge_pdfs *)

\* A variant that returns after the second file instead of the first.
ReturnsEarlyAfterSecond(m, idx) == ~m /\ idx = 1

\* line 58
ReturnsEarly(m, idx) == ~m /\ idx = 0

\* line 69
MergeBranch(m, processed) == m /\ Len(processed) > 1

\* lines 191-195: the pages of the existing files, in list order
MergedPages(f, paths) ==
    Concat([k \in 1..Len(paths) |->
              IF Exists(f, paths[k]) THEN f[paths[k]].pages ELSE <<>>])

\* lines 73-75: the intermediates the cleanup loop removes
CleanupTargets(f, processed, mpath) ==
    {fp \in Range(processed) : Exists(f, fp) /\ fp # mpath}

\* lines 59-64: the stats of the early return
EarlyStats(pages, files, watermarks, bytes) ==
    [pages |-> pages, files |-> files, watermarks |-> watermarks,
     size_mb |-> SizeMB(bytes)]

\* lines 87-94: the stats of the final return
FinalStats(pages, files, watermarks, bytes) ==
    [pages |-> pages, files |-> files, watermarks |-> watermarks,
     size_mb |-> Round2(SizeMB(bytes))]

-----------------------------------------------------------------------------
(* Sample documents *)

Rect(x0, y0, w, h) == [x0 |-> x0, y0 |-> y0, width |-> w, height |-> h]

Image(xref, rects) == [xref |-> xref, rects |-> rects]

Page(w, h, text, images) ==
    [width |-> w, height |-> h, text |-> text, images |-> images, overlays |-> <<>>]

\* Placements on a 600 x 800 page: one inside all four bounds, and one lying
\* exactly on each bound with the other three satisfied.
RectInside   == Rect(510, 720, 100, 80)
RectOnY      == Rect(510, 560, 100, 80)
RectOnX      == Rect(390, 720, 100, 80)
RectOnArea   == Rect(400, 700, 250, 80)
RectOnHeight == Rect(510, 600, 100, 96)
RectStamp    == Rect(510, 720, 100, 100)
RectFullPage == Rect(0, 0, 600, 800)

RectSamples ==
    {RectInside, RectOnY, RectOnX, RectOnArea, RectOnHeight, RectStamp, RectFullPage}

TextNone      == <<>>
TextCamScan   == <<"yi-shi-yong", "Cam", "Scan", "ner", "sao-miao">>
TextInvoice   == <<"Invoice", " 42">>

TextSamples == {TextNone, TextCamScan, TextInvoice}

ImageSamples ==
    {<<>>} \cup {<<Image(7, <<r>>)>> : r \in RectSamples}
           \cup {<<Image(7, <<RectOnHeight, RectInside>>)>>,
                 <<Image(7, <<RectInside>>), Image(9, <<>>)>>}

\* Pages with text only, pages with images only, and two pages with both
\* (the second one in landscape, its text in upper case).
PageSamples ==
    {Page(600, 800, t, <<>>) : t \in TextSamples}
    \cup {Page(600, 800, TextNone, im) : im \in ImageSamples}
    \cup {Page(600, 800, TextCamScan, <<Image(7, <<RectOnHeight, RectInside>>)>>),
          Page(800, 600, <<"SCAN">>, <<Image(7, <<Rect(700, 500, 90, 60)>>)>>)}

PageText  == Page(600, 800, TextCamScan, <<>>)
PageBlank == Page(600, 800, TextNone, <<>>)
PageQr    == Page(600, 800, TextInvoice, <<Image(7, <<RectInside>>)>>)
PageStamp == Page(600, 800, TextNone, <<Image(7, <<RectStamp>>)>>)

PathA      == <<"a", ".pdf">>
PathB      == <<"b", ".pdf">>
PathAClean == <<"a", "_clean", ".pdf">>
PathUpper  == <<"c", ".PDF">>

PathSamples == {PathA, PathB, PathAClean, PathUpper}

File(pages, bytes) == [pages |-> pages, bytes |-> bytes]

\* The files the caller has stored before it calls process.
InitialFS ==
    [q \in PathSamples |->
        CASE q = PathA      -> File(<<PageText, PageBlank>>, 2097152)
          [] q = PathB      -> File(<<PageQr, PageStamp, PageText>>, 3145728)
          [] q = PathAClean -> File(<<PageQr>>, 1048576)
          [] q = PathUpper  -> File(<<PageStamp>>, 1048576)]

\* The sizes a written document can have: 0.125 MB (a tie of round(x, 2)),
\* 1.1773... MB, and 0.0050001... MB.
SaveSizes == {131072, 1234567}
GsSizes   == {5243}

NoStats == [pages |-> 0, files |-> 0, watermarks |-> 0, size_mb |-> SizeMB(0)]
NoReturn == [path |-> <<>>, stats |-> NoStats]
NoFile == File(<<>>, 0)
NoOut == [done |-> FALSE, pages |-> <<>>, removed |-> 0]
NoReport == [done |-> FALSE, pages |-> 0, images |-> 0, has_text_watermark |-> FALSE,
             has_qr_watermark |-> FALSE, image_details |-> <<>>]

-----------------------------------------------------------------------------
(* Document Pipeline: process *)

Init ==
    /\ fs = InitialFS
    /\ file_paths \in SeqsUpTo(PathSamples, MaxFiles)
    /\ remove_text \in BOOLEAN
    /\ remove_qr \in BOOLEAN
    /\ merge \in BOOLEAN
    /\ compress \in BOOLEAN
    /\ pc = "loop"
    /\ i = 0
    /\ total_pages = 0
    /\ total_watermarks = 0
    /\ processed_pdfs = <<>>
    /\ merged_path = <<>>
    /\ final_path = <<>>
    /\ ret = NoReturn
    /\ exc = ""
    /\ removed_log = <<>>
    /\ derived = {}
    /\ deleted = {}
    /\ gs_calls = <<>>
    /\ gs_result = "none"
    /\ merged_file = NoFile
    /\ doc = <<>>
    /\ out = NoOut
    /\ report = NoReport

Raise(name) ==
    /\ pc' = "raised"
    /\ exc' = name

\* One iteration of the for loop (lines 42-66), with the call of
\* _remove_watermarks (lines 108-185) it makes.  fitz refuses a non-incremental
\* save onto the file the document was opened from.
RedactFile ==
    /\ pc = "loop"
    /\ i < Len(file_paths)
    /\ LET filepath    == file_paths[i + 1]
           output_path == CleanPath(filepath)
           res         == RemoveWatermarksDoc(fs[filepath].pages, remove_text, remove_qr)
       IN  IF ~Exists(fs, filepath)
           THEN /\ Raise("FileNotFoundError")
                /\ UNCHANGED <<fs, i, total_pages, processed_pdfs, ret, removed_log, derived>>
           ELSE IF output_path = filepath
           THEN /\ Raise("ValueError")
                /\ derived' = derived \cup {output_path}
                /\ UNCHANGED <<fs, i, total_pages, processed_pdfs, ret, removed_log>>
           ELSE \E bytes \in SaveSizes :
                /\ fs' = WriteFile(fs, output_path, File(res.pages, bytes))
                /\ derived' = derived \cup {output_path}
                /\ removed_log' = Append(removed_log, res.removed)
                /\ total_pages' = total_pages + Len(res.pages)
                /\ IF ReturnsEarly(merge, i)
                   THEN /\ ret' = [path  |-> output_path,
                                   stats |-> EarlyStats(total_pages', Len(file_paths),
                                                        total_watermarks, bytes)]
                        /\ pc' = "done"
                        /\ UNCHANGED <<i, processed_pdfs, exc>>
                   ELSE /\ processed_pdfs' = Append(processed_pdfs, output_path)
                        /\ i' = i + 1
                        /\ UNCHANGED <<pc, ret, exc>>
    /\ UNCHANGED <<file_paths, remove_text, remove_qr, merge, compress,
                   total_watermarks, merged_path, final_path, deleted, gs_calls,
                   gs_result, merged_file, doc, out, report>>

\* Lines 69-82 up to the compression: _merge_pdfs (lines 189-204) and the
\* cleanup loop (lines 73-75).
MergeFiles ==
    /\ pc = "loop"
    /\ i = Len(file_paths)
    /\ MergeBranch(merge, processed_pdfs)
    /\ \E bytes \in SaveSizes :
         LET output_path == MergedPath(processed_pdfs)
             file        == File(MergedPages(fs, processed_pdfs), bytes)
             written     == WriteFile(fs, output_path, file)
             targets     == CleanupTargets(written, processed_pdfs, output_path)
         IN  /\ fs' = RemoveFiles(written, targets)
             /\ merged_path' = output_path
             /\ merged_file' = file
             /\ derived' = derived \cup {output_path}
             /\ deleted' = deleted \cup targets
             /\ IF compress
                THEN pc' = "compress" /\ UNCHANGED final_path
                ELSE pc' = "stats" /\ final_path' = output_path
    /\ UNCHANGED <<file_paths, remove_text, remove_qr, merge, compress, i,
                   total_pages, total_watermarks, processed_pdfs, ret, exc,
                   removed_log, gs_calls, gs_result, doc, out, report>>

\* Lines 83-84: no merge, the first processed file is the output.
SingleFile ==
    /\ pc = "loop"
    /\ i = Len(file_paths)
    /\ ~MergeBranch(merge, processed_pdfs)
    /\ IF processed_pdfs = <<>>
       THEN Raise("IndexError") /\ UNCHANGED final_path
       ELSE pc' = "stats" /\ final_path' = processed_pdfs[1] /\ UNCHANGED exc
    /\ UNCHANGED <<fs, file_paths, remove_text, remove_qr, merge, compress, i,
                   total_pages, total_watermarks, processed_pdfs, merged_path, ret,
                   removed_log, derived, deleted, gs_calls, gs_result, merged_file,
                   doc, out, report>>

\* Lines 78-80: _compress_pdf (lines 208-229), then os.remove(merged_path).
\* subprocess.run raises FileNotFoundError when there is no gs executable and
\* CalledProcessError when gs exits non-zero; only the second is caught.
CompressPdf ==
    /\ pc = "compress"
    /\ \E outcome \in {"ok", "nonzero", "missing"} :
         LET input_path  == merged_path
             output_path == CompressedPath(input_path)
         IN  /\ gs_calls' = Append(gs_calls, input_path)
             /\ gs_result' = outcome
             /\ derived' = derived \cup {output_path}
             /\ CASE outcome = "ok" ->
                       \E bytes \in GsSizes :
                         /\ fs' = RemoveFiles(
                                    WriteFile(fs, output_path,
                                              File(fs[input_path].pages, bytes)),
                                    {merged_path})
                         /\ deleted' = deleted \cup {merged_path}
                         /\ final_path' = output_path
                         /\ pc' = "stats"
                         /\ UNCHANGED exc
                  [] outcome = "nonzero" ->
                         /\ fs' = RemoveFiles(fs, {merged_path})
                         /\ deleted' = deleted \cup {merged_path}
                         /\ final_path' = input_path
                         /\ pc' = "stats"
                         /\ UNCHANGED exc
                  [] outcome = "missing" ->
                         /\ Raise("FileNotFoundError")
                         /\ UNCHANGED <<fs, deleted, final_path>>
    /\ UNCHANGED <<file_paths, remove_text, remove_qr, merge, compress, i,
                   total_pages, total_watermarks, processed_pdfs, merged_path, ret,
                   removed_log, merged_file, doc, out, report>>

\* Lines 87-94: the size of the final file and the returned stats.
ReturnStats ==
    /\ pc = "stats"
    /\ IF ~Exists(fs, final_path)
       THEN Raise("FileNotFoundError") /\ UNCHANGED ret
       ELSE /\ ret' = [path  |-> final_path,
                       stats |-> FinalStats(total_pages, Len(file_paths),
                                            total_watermarks, fs[final_path].bytes)]
            /\ pc' = "done"
            /\ UNCHANGED exc
    /\ UNCHANGED <<fs, file_paths, remove_text, remove_qr, merge, compress, i,
                   total_pages, total_watermarks, processed_pdfs, merged_path,
                   final_path, removed_log, derived, deleted, gs_calls, gs_result,
                   merged_file, doc, out, report>>

Next == RedactFile \/ MergeFiles \/ SingleFile \/ CompressPdf \/ ReturnStats

Spec == Init /\ [][Next]_vars

-----------------------------------------------------------------------------
(* Page Redactor and Scan Reporter on one document *)

InitRedactor ==
    /\ doc \in SeqsUpTo(PageSamples, MaxPages) \ {<<>>}
    /\ remove_text \in BOOLEAN
    /\ remove_qr \in BOOLEAN
    /\ out = NoOut
    /\ report = NoReport
    /\ fs = InitialFS
    /\ file_paths = <<>>
    /\ merge = FALSE
    /\ compress = FALSE
    /\ pc = "idle"
    /\ i = 0
    /\ total_pages = 0
    /\ total_watermarks = 0
    /\ processed_pdfs = <<>>
    /\ merged_path = <<>>
    /\ final_path = <<>>
    /\ ret = NoReturn
    /\ exc = ""
    /\ removed_log = <<>>
    /\ derived = {}
    /\ deleted = {}
    /\ gs_calls = <<>>
    /\ gs_result = "none"
    /\ merged_file = NoFile

\* _remove_watermarks on doc: the pages it saves and the count it prints
RemoveWatermarks ==
    /\ ~out.done
    /\ LET res == RemoveWatermarksDoc(doc, remove_text, remove_qr)
       IN  out' = [done |-> TRUE, pages |-> res.pages, removed |-> res.removed]
    /\ UNCHANGED <<doc, report, remove_text, remove_qr>>
    /\ UNCHANGED pipelineVars

\* scan_pdf on doc (the report without text_details, the sample of short spans
\* of page 1, which nothing here reads)
ScanPdf ==
    /\ ~report.done
    /\ LET res == ScanDoc(doc)
       IN  report' = [done |-> TRUE, pages |-> res.pages, images |-> res.images,
                      has_text_watermark |-> res.has_text_watermark,
                      has_qr_watermark |-> res.has_qr_watermark,
                      image_details |-> res.image_details]
    /\ UNCHANGED <<doc, out, remove_text, remove_qr>>
    /\ UNCHANGED pipelineVars

NextRedactor == RemoveWatermarks \/ ScanPdf

SpecRedactor == InitRedactor /\ [][NextRedactor]_vars

-----------------------------------------------------------------------------
(* Properties *)

Returned == pc = "done"

\* The document a path held when process was called.
InputPages(path) == InitialFS[path].pages

\* C1: on every successful return of process, stats 'watermarks' is the total
\* number of redactions the Page Redactor performed over the processed files
\* (one per page whose text matched, one per placement passing the heuristic).
C1_WatermarksCounted ==
    Returned => ret.stats.watermarks = SumSeq(removed_log)

\* C2: when the compression tool fails (missing, or non-zero exit), process
\* raises nothing and returns the pre-compression merged document, which still
\* exists with unchanged content when process returns.
C2_CompressionFallback ==
    gs_result \in {"nonzero", "missing"} =>
        /\ pc # "raised"
        /\ Returned => /\ ret.path = merged_path
                       /\ Exists(fs, merged_path)
                       /\ fs[merged_path] = merged_file

\* C3: with compress and merge set and a non-empty list, the compression tool
\* is run on the document the preceding stages produced, for several files
\* (the merged document) and for exactly one file (its redacted document).
C3_CompressAlwaysInvoked ==
    (Returned /\ merge /\ compress /\ Len(file_paths) >= 1) =>
        /\ Len(gs_calls) = 1
        /\ gs_calls[1] = IF Len(processed_pdfs) > 1 THEN merged_path
                         ELSE processed_pdfs[1]

\* C4: with merge = false and n >= 1 files, only the first file is redacted
\* and the call returns right after it: nothing is run on files 2..n, the path
\* returned is the first file's _clean output, stats 'files' is n and stats
\* 'pages' is the page count of the first file.
C4_NoMergeFirstFileOnly ==
    (pc \in {"loop", "compress", "stats", "done"} /\ ~merge /\ Len(file_paths) >= 1) =>
        /\ i = 0
        /\ processed_pdfs = <<>>
        /\ pc \in {"loop", "done"}
        /\ Returned =>
             /\ Len(removed_log) = 1
             /\ derived = {Replace(file_paths[1], "_clean")}
             /\ deleted = {}
             /\ gs_calls = <<>>
             /\ merged_path = <<>>
             /\ ret.path = Replace(file_paths[1], "_clean")
             /\ fs[ret.path].pages =
                    RemoveWatermarksDoc(InputPages(file_paths[1]),
                                        remove_text, remove_qr).pages
             /\ \A q \in (DOMAIN fs) \cup (DOMAIN InitialFS) :
                    q # ret.path => /\ q \in DOMAIN fs
                                    /\ q \in DOMAIN InitialFS
                                    /\ fs[q] = InitialFS[q]
             /\ ret.stats.files = Len(file_paths)
             /\ ret.stats.pages = Len(InputPages(file_paths[1]))

C4_Witness ==
    /\ Returned
    /\ ~merge
    /\ Len(file_paths) = 3
    /\ file_paths[2] # file_paths[1]
    /\ Len(InputPages(file_paths[2])) # Len(InputPages(file_paths[1]))

\* C5: with merge = true and more than one file, the output's pages are the
\* redacted inputs' pages concatenated in list order, its page count is the sum
\* of the inputs' page counts, stats 'pages' is that count, and after the merge
\* no per-file _clean intermediate is left.
C5_MergeConcatenates ==
    (Returned /\ merge /\ Len(file_paths) > 1) =>
        /\ fs[ret.path].pages =
               Concat([k \in 1..Len(file_paths) |->
                         RemoveWatermarksDoc(InputPages(file_paths[k]),
                                             remove_text, remove_qr).pages])
        /\ Len(fs[ret.path].pages) =
               SumSeq([k \in 1..Len(file_paths) |-> Len(InputPages(file_paths[k]))])
        /\ ret.stats.pages = Len(fs[ret.path].pages)
        /\ \A k \in 1..Len(file_paths) :
               ~Exists(fs, Replace(file_paths[k], "_clean"))

\* No input of the call is the _clean name of an input of the call.
NoCleanNameAmongInputs ==
    \A k, n \in 1..Len(file_paths) : file_paths[n] # Replace(file_paths[k], "_clean")

\* What remains of C5 when no input carries the _clean name of another one.
C5_MergeConcatenatesDistinctNames ==
    NoCleanNameAmongInputs => C5_MergeConcatenates

C5_DistinctNamesWitness ==
    /\ Returned
    /\ merge
    /\ file_paths = <<PathA, PathB>>

\* The four strict bounds of the Region Heuristic, as the specification
\* states them.
HeuristicBounds(rect, W, H) ==
    /\ rect.y0 * 100 > 70 * H
    /\ rect.x0 * 100 > 65 * W
    /\ rect.width * rect.height < 20000
    /\ rect.height * 100 < 12 * H

PassingRects(page) ==
    LET Pass(r) == HeuristicBounds(r, page.width, page.height)
    IN  SelectSeq(PlacementRects(page), Pass)

\* The overlays the Page Redactor put on page k of doc, without the text
\* rectangle of step 1 in front and the two fixed rectangles at the end.
PlacementOverlaysOf(k) ==
    LET ov    == out.pages[k].overlays
        first == Len(TextOverlays(doc[k], remove_text))
    IN  SubSeq(ov, first + 1, Len(ov) - 2)

\* C6: with remove_qr, a placement is redacted (and counted) iff all four
\* strict bounds hold: y0/H > 0.70, x0/W > 0.65, width*height < 20000 and
\* height/H < 0.12; a placement on a bound is not redacted.
C6_RedactedIffFourBounds ==
    (out.done /\ remove_qr) =>
        /\ \A k \in 1..Len(doc) :
             PlacementOverlaysOf(k) =
                 [n \in 1..Len(PassingRects(doc[k])) |->
                     PlacementOverlay(PassingRects(doc[k])[n])]
        /\ out.removed =
             SumSeq([k \in 1..Len(doc) |->
                       Len(PassingRects(doc[k]))
                       + (IF remove_text /\ has_watermark(doc[k].text) THEN 1 ELSE 0)])

C6_Witness ==
    /\ out.done
    /\ remove_qr
    /\ \E k \in 1..Len(doc) :
         /\ PlacementRects(doc[k]) = <<RectOnHeight, RectInside>>
         /\ PlacementOverlaysOf(k) = <<PlacementOverlay(RectInside)>>
    /\ \E k \in 1..Len(doc) : PlacementRects(doc[k]) = <<RectOnY>>

\* C7: scan_pdf reports has_qr_watermark, and lists a placement in
\* image_details, exactly for the placements the Page Redactor with remove_qr
\* would redact: those inside all four bounds of the Region Heuristic.
C7_ScanUsesSameHeuristic ==
    report.done =>
        /\ report.has_qr_watermark = (\E k \in 1..Len(doc) : PassingRects(doc[k]) # <<>>)
        /\ report.image_details =
             Concat([k \in 1..Len(doc) |->
                       [n \in 1..Len(PassingRects(doc[k])) |->
                           ImageDetail(k - 1, doc[k], PassingRects(doc[k])[n])]])

\* The two safety-net rectangles of a page (in hundredths of a unit): from 50%
\* resp. 75% of the width and 85% of the height to the bottom-right corner,
\* which the code insets by 2 units.
SafetyNetOf(page) ==
    << [x0 |-> 50 * page.width, y0 |-> 85 * page.height,
        x1 |-> 100 * page.width - 200, y1 |-> 100 * page.height - 200],
       [x0 |-> 75 * page.width, y0 |-> 85 * page.height,
        x1 |-> 100 * page.width - 200, y1 |-> 100 * page.height - 200] >>

\* C8: on every page the two safety-net rectangles are drawn iff remove_text
\* or remove_qr is set, whatever the keyword match and the heuristic found;
\* with both flags false no overlay is added to any page; the number and order
\* of the pages never change.
C8_SafetyNetIffAnyFlag ==
    out.done =>
        /\ Len(out.pages) = Len(doc)
        /\ \A k \in 1..Len(doc) :
             LET ov == out.pages[k].overlays
             IN  /\ [out.pages[k] EXCEPT !.overlays = <<>>] = doc[k]
                 /\ (remove_text \/ remove_qr) =>
                        /\ Len(ov) >= 2
                        /\ SubSeq(ov, Len(ov) - 1, Len(ov)) = SafetyNetOf(doc[k])
                 /\ ~(remove_text \/ remove_qr) => ov = <<>>

C8_Witness ==
    /\ out.done
    /\ remove_qr
    /\ ~remove_text
    /\ Len(doc) = 2
    /\ doc[1] # doc[2]
    /\ doc[2].text = <<>>
    /\ doc[2].images = <<>>
    /\ out.pages[2].overlays = SafetyNetOf(doc[2])

\* C9: on every successful return path of process, stats 'size_mb' is the
\* size of the returned file in MB (bytes / 1048576) rounded to 2 decimals.
C9_SizeRounded ==
    Returned =>
        LET rounded == Round2(SizeMB(fs[ret.path].bytes))
            v       == ret.stats.size_mb
        IN  v.num * rounded.den = rounded.num * v.den

\* C10: process never writes to, overwrites or deletes one of its input
\* paths: every path it derives for writing differs from every input path and
\* the cleanup only deletes derived intermediates.
C10_InputsUntouched ==
    \A k \in 1..Len(file_paths) :
        /\ file_paths[k] \notin derived
        /\ file_paths[k] \notin deleted

====
